---- MODULE Spec2Model ----
(***************************************************************************)
(* A model of src/index.mjs of fide-ratings-utils: the fixed-width header  *)
(* segmentation, the row decoder with its compound columns, the grouping   *)
(* of the data lines by federation, the CSV emitter, and the sequential    *)
(* run of main over ratingSources followed by the listing page.            *)
(*                                                                         *)
(* JavaScript strings are TLA+ strings; offsets are 0-based as in the      *)
(* source, and Substring clamps as String.prototype.substring does.        *)
(***************************************************************************)
EXTENDS Integers, Sequences, FiniteSets, TLC

(***************************************************************************)
(* Strings                                                                 *)
(***************************************************************************)

\* The character of s at 0-based offset i (s[i] in the source).
CharAt(s, i) == SubSeq(s, i + 1, i + 1)

\* The characters the regular expressions' \s matches, among those the
\* model's inputs use: the space, the tab and the line terminators.
IsSpace(c) == c \in {" ", "\t", "\r", "\n"}

Min(a, b) == IF a < b THEN a ELSE b
Max(a, b) == IF a > b THEN a ELSE b

Clamp(i, n) == Max(0, Min(i, n))

\* String.prototype.substring(start, end): both arguments are clamped to
\* [0, length] and swapped when start > end.
Substring(s, start, end) ==
    LET a == Clamp(start, Len(s))
        b == Clamp(end, Len(s))
        lo == Min(a, b)
        hi == Max(a, b)
    IN  IF lo = hi THEN "" ELSE SubSeq(s, lo + 1, hi)

\* String.prototype.substring(start) with one argument.
SubstringFrom(s, start) == Substring(s, start, Len(s))

\* The offsets of s that hold a character \s does not match.
InkOffsets(s) == {i \in 0..(Len(s) - 1) : ~IsSpace(CharAt(s, i))}

\* The k-th smallest (k from 1) of a set of integers.
Nth(S, k) == CHOOSE x \in S : Cardinality({y \in S : y < x}) = k - 1

\* String.prototype.trim(): from the first to the last character that is
\* not whitespace.
Trim(s) ==
    LET ink == InkOffsets(s)
    IN  IF ink = {} THEN ""
        ELSE Substring(s, Nth(ink, 1), Nth(ink, Cardinality(ink)) + 1)

\* String.prototype.indexOf(needle): the first offset at which needle
\* occurs in s, or -1.
IndexOf(s, needle) ==
    LET hits == {i \in 0..(Len(s) - Len(needle)) :
                    Substring(s, i, i + Len(needle)) = needle}
    IN  IF hits = {} THEN -1
        ELSE CHOOSE i \in hits : \A j \in hits : i <= j

\* String.prototype.includes(needle).
Includes(s, needle) == IndexOf(s, needle) # -1

\* String.prototype.startsWith(prefix).
StartsWith(s, prefix) == Substring(s, 0, Len(prefix)) = prefix

\* s.split(/\s+/): the pieces of s between the maximal runs of whitespace;
\* a leading or trailing run leaves an empty first or last piece, and the
\* empty string splits into one empty piece.
SplitWs(s) ==
    LET runStarts == {i \in 0..(Len(s) - 1) :
                        IsSpace(CharAt(s, i)) /\ (i = 0 \/ ~IsSpace(CharAt(s, i - 1)))}
        runEnds == {i \in 0..(Len(s) - 1) :
                        IsSpace(CharAt(s, i))
                        /\ (i = Len(s) - 1 \/ ~IsSpace(CharAt(s, i + 1)))}
        n == Cardinality(runStarts)
    IN  [k \in 1..(n + 1) |->
            Substring(s,
                      IF k = 1 THEN 0 ELSE Nth(runEnds, k - 1) + 1,
                      IF k = n + 1 THEN Len(s) ELSE Nth(runStarts, k))]

\* Array.prototype.join(sep) of an array of strings.
RECURSIVE Join(_, _)
Join(parts, sep) ==
    IF Len(parts) = 0 THEN ""
    ELSE IF Len(parts) = 1 THEN parts[1]
    ELSE parts[1] \o sep \o Join(Tail(parts), sep)

(***************************************************************************)
(* JavaScript values and objects                                           *)
(***************************************************************************)

\* The value undefined.  Every string of the program is made of the
\* characters of the inputs, none of which is "<" or ">", so this marker is
\* never the value of a JavaScript string.
Undefined == "<undefined>"

\* typeof v === 'string'.
IsString(v) == v # Undefined

\* arr[i] for a 1-based position i of a destructuring pattern: undefined
\* past the end of the array.
At(arr, i) == IF i <= Len(arr) THEN arr[i] ELSE Undefined

\* The rest element of a destructuring pattern: [x, ...rest] = arr.
Rest(arr) == IF Len(arr) <= 1 THEN <<>> ELSE Tail(arr)

\* x || '' on a string or undefined: both falsy values give ''.
\* (OrEmptyDropped: the variant without the default.)
OrEmptyDropped(x) == x

OrEmpty(x) == IF x = Undefined \/ x = "" THEN "" ELSE x

\* x ?? ''.
Nullish(x) == IF x = Undefined THEN "" ELSE x

IsDigit(c) == c \in {"0", "1", "2", "3", "4", "5", "6", "7", "8", "9"}

DigitVal(c) ==
    CASE c = "0" -> 0 [] c = "1" -> 1 [] c = "2" -> 2 [] c = "3" -> 3
      [] c = "4" -> 4 [] c = "5" -> 5 [] c = "6" -> 6 [] c = "7" -> 7
      [] c = "8" -> 8 [] OTHER -> 9

RECURSIVE NumVal(_)
NumVal(k) ==
    IF Len(k) = 0 THEN 0
    ELSE 10 * NumVal(Substring(k, 0, Len(k) - 1)) + DigitVal(CharAt(k, Len(k) - 1))

\* Whether property key k is an array index (a canonical numeric string
\* below 2^32 - 1): own property keys list these first, in ascending
\* numeric order, and the other string keys after them in creation order.
\* Keys of up to 9 digits are all below that limit; the keys of this
\* program's inputs (a 3-character federation code, a short column label)
\* have no longer run of digits.
IsArrayIndex(k) ==
    /\ Len(k) > 0
    /\ Len(k) <= 9
    /\ \A i \in 0..(Len(k) - 1) : IsDigit(CharAt(k, i))
    /\ (k = "0" \/ CharAt(k, 0) # "0")

\* An object is the sequence of its own properties <<key, value>> in the
\* order Object.keys and Object.entries list them.
ObjKeys(obj) == [i \in 1..Len(obj) |-> obj[i][1]]

ObjHas(obj, k) == \E i \in 1..Len(obj) : obj[i][1] = k

\* obj[k]: undefined for a key the object does not have.
ObjGet(obj, k) ==
    IF ObjHas(obj, k)
    THEN obj[CHOOSE i \in 1..Len(obj) : obj[i][1] = k][2]
    ELSE Undefined

\* Where a new key k is created in the key order of obj: the number of
\* properties listed before it.
InsertPos(obj, k) ==
    IF IsArrayIndex(k)
    THEN Cardinality({i \in 1..Len(obj) :
            IsArrayIndex(obj[i][1]) /\ NumVal(obj[i][1]) < NumVal(k)})
    ELSE Len(obj)

\* obj[k] = v: an existing property keeps its place, a new one is created.
ObjSet(obj, k, v) ==
    IF ObjHas(obj, k)
    THEN [i \in 1..Len(obj) |-> IF obj[i][1] = k THEN <<k, v>> ELSE obj[i]]
    ELSE LET p == InsertPos(obj, k)
         IN  SubSeq(obj, 1, p) \o <<<<k, v>>>> \o SubSeq(obj, p + 1, Len(obj))

(***************************************************************************)
(* Column layout: colRegex = /(\S[\S ]*?)(?=\s{2,}|$)/g                    *)
(***************************************************************************)

\* The lookahead (?=\s{2,}|$) at offset e of the header.
\* (LookaheadOneSpace: the variant (?=\s|$), which cuts at a single space.)
LookaheadOneSpace(header, e) ==
    \/ e = Len(header)
    \/ IsSpace(CharAt(header, e))

Lookahead(header, e) ==
    \/ e = Len(header)
    \/ /\ e + 1 < Len(header)
       /\ IsSpace(CharAt(header, e))
       /\ IsSpace(CharAt(header, e + 1))

\* [\S ]*? from offset e: the lazy quantifier stops at the first offset
\* where the lookahead holds; it can step over a non-whitespace character
\* or a space, not over any other whitespace.  -1: no match.
LazyEnd(header, e) ==
    LET stop == Nth({x \in e..Len(header) : Lookahead(header, x)}, 1)
    IN  IF \A j \in e..(stop - 1) :
               ~IsSpace(CharAt(header, j)) \/ CharAt(header, j) = " "
        THEN stop
        ELSE -1

\* The end of the match that starts at offset p, or -1: \S first.
MatchAt(header, p) ==
    IF p < Len(header) /\ ~IsSpace(CharAt(header, p))
    THEN LazyEnd(header, p + 1)
    ELSE -1

\* colRegex.exec(header) with the regex's lastIndex: the leftmost match at
\* or after lastIndex, as <<match.index, end of the match>>, or <<-1, -1>>
\* for null.
Exec(header, lastIndex) ==
    LET starts == {p \in lastIndex..(Len(header) - 1) : MatchAt(header, p) # -1}
    IN  IF starts = {} THEN <<-1, -1>>
        ELSE LET p == CHOOSE q \in starts : \A r \in starts : q <= r
             IN  <<p, MatchAt(header, p)>>

\* The while loop over colRegex.exec: columns and colPositions as pushed.
RECURSIVE MatchLoop(_, _, _, _)
MatchLoop(header, lastIndex, columns, colPositions) ==
    LET m == Exec(header, lastIndex)
    IN  IF m[1] = -1
        THEN [columns |-> columns, colPositions |-> colPositions]
        ELSE MatchLoop(header, m[2],
                       Append(columns, Trim(Substring(header, m[1], m[2]))),
                       Append(colPositions, m[1]))

\* The last boundary pushed after the loop: header.length.
\* (LastBoundaryShort: the variant that stops one character short.)
LastBoundaryShort(header) == Len(header) - 1

LastBoundary(header) == Len(header)

\* columns and colPositions of a header; colPositions has one more entry
\* than columns, the header's length.
ExtractLayout(header) ==
    LET l == MatchLoop(header, 0, <<>>, <<>>)
    IN  [columns |-> l.columns,
         colPositions |-> Append(l.colPositions, LastBoundary(header))]

(***************************************************************************)
(* Row decoder: the body of fedLines.map(line => ...)                      *)
(***************************************************************************)

\* The federation code of the 'Fed Sex Tit' value: its first 3 characters,
\* trimmed.  (FedOfUntrimmed: the variant without the trim.)
FedOfUntrimmed(value) == Substring(value, 0, 3)

FedOf(value) == Trim(Substring(value, 0, 3))

\* What obj['Rating'] is given: headerParts[1], of the label's own tokens.
\* (RatingFromValue: the variant that takes the token of the sliced value.)
RatingFromValue(headerParts, parts) == At(parts, 2)

RatingOf(headerParts, parts) == At(headerParts, 2)

\* One iteration of the for loop over the columns: the properties that
\* column label with sliced value `value` sets on obj.
DecodeColumn(obj, label, value) ==
    IF label = "Fed Sex Tit"
    THEN LET fed == FedOf(value)
             rest == Trim(SubstringFrom(value, 3))
             parts == SplitWs(rest)
             sex == At(parts, 1)
             titles == Rest(parts)
         IN  ObjSet(ObjSet(ObjSet(obj, "Fed", fed),
                           "Sex", OrEmpty(sex)),
                    "Title", OrEmpty(Join(titles, " ")))
    ELSE IF label = "WTit OTit"
    THEN LET parts == SplitWs(value)
         IN  ObjSet(ObjSet(obj, "WTit", OrEmpty(At(parts, 1))),
                    "OTit", OrEmpty(At(parts, 2)))
    ELSE IF StartsWith(label, "FOA AUG")
    THEN LET headerParts == SplitWs(label)
             parts == SplitWs(value)
         IN  ObjSet(ObjSet(ObjSet(ObjSet(obj,
                    "FOA", OrEmpty(At(parts, 1))),
                    "Rating", OrEmpty(RatingOf(headerParts, parts))),
                    "Gms", OrEmpty(At(parts, 2))),
                    "K", OrEmpty(At(parts, 3)))
    ELSE IF label = "B-day Flag"
    THEN LET parts == SplitWs(value)
         IN  ObjSet(ObjSet(obj, "B-day", OrEmpty(At(parts, 1))),
                    "Flag", OrEmpty(Join(Rest(parts), " ")))
    ELSE ObjSet(obj, label, value)

\* The sliced value of column i (1-based) of a line.
SliceOf(colPositions, i, line) ==
    Trim(Substring(line, colPositions[i], colPositions[i + 1]))

RECURSIVE DecodeFrom(_, _, _, _, _)
DecodeFrom(cols, colPositions, line, i, obj) ==
    IF i > Len(cols) THEN obj
    ELSE DecodeFrom(cols, colPositions, line, i + 1,
                    DecodeColumn(obj, cols[i], SliceOf(colPositions, i, line)))

\* The Record of one data line.
DecodeRow(cols, colPositions, line) ==
    DecodeFrom(cols, colPositions, line, 1, <<>>)

(***************************************************************************)
(* Lines of the text member and grouping by federation                     *)
(***************************************************************************)

\* txtContent.split(/\r?\n/): the pieces between the line terminators; a
\* carriage return right before a line feed belongs to the terminator.
SplitLines(s) ==
    LET feeds == {i \in 0..(Len(s) - 1) : CharAt(s, i) = "\n"}
        n == Cardinality(feeds)
        from(k) == IF k = 1 THEN 0 ELSE Nth(feeds, k - 1) + 1
        to(k) == IF k = n + 1 THEN Len(s)
                 ELSE LET f == Nth(feeds, k)
                      IN  IF f > from(k) /\ CharAt(s, f - 1) = "\r" THEN f - 1 ELSE f
    IN  [k \in 1..(n + 1) |-> Substring(s, from(k), to(k))]

\* .filter(Boolean) on an array of strings: the empty strings go.
NonEmptyLines(arr) == SelectSeq(arr, LAMBDA l : l # "")

\* lines of the text member.
LinesOf(txtContent) == NonEmptyLines(SplitLines(txtContent))

\* fedStart and fedEnd: the span of the first 'Fed' in the header;
\* indexOf gives -1 when there is none.
FedStart(hdr) == IndexOf(hdr, "Fed")

FedEnd(hdr) == FedStart(hdr) + Len("Fed")

\* The key of a line: line.substring(fedStart, fedEnd).trim().
\* (KeyOfUntrimmed: the variant without the trim.)
KeyOfUntrimmed(hdr, line) == Substring(line, FedStart(hdr), FedEnd(hdr))

KeyOf(hdr, line) == Trim(Substring(line, FedStart(hdr), FedEnd(hdr)))

\* if (!fed) continue: the empty key is the only falsy string.
\* (SkipsNone: the variant without the test.)
SkipsNone(fed) == FALSE

Skips(fed) == fed = ""

\* fedMap[fed].push(line).  (PushFront: the variant with unshift.)
PushFront(arr, line) == <<line>> \o arr

Push(arr, line) == Append(arr, line)

\* The for loop over dataLines from position i, building fedMap.
RECURSIVE GroupFrom(_, _, _, _)
GroupFrom(hdr, lines, i, map) ==
    IF i > Len(lines) THEN map
    ELSE LET fed == KeyOf(hdr, lines[i])
         IN  IF Skips(fed) THEN GroupFrom(hdr, lines, i + 1, map)
             ELSE LET old == IF ObjHas(map, fed) THEN ObjGet(map, fed) ELSE <<>>
                  IN  GroupFrom(hdr, lines, i + 1,
                                ObjSet(map, fed, Push(old, lines[i])))

GroupByFed(hdr, lines) == GroupFrom(hdr, lines, 1, <<>>)

(***************************************************************************)
(* CSV emitter                                                             *)
(***************************************************************************)

\* val.replace(/"/g, '""').
DoubleQuotes(val) ==
    Join([i \in 1..Len(val) |->
            IF CharAt(val, i - 1) = "\"" THEN "\"\"" ELSE CharAt(val, i - 1)], "")

\* Whether a value is wrapped in quotes.
\* (NeedsQuotesNoComma: the variant that forgets the delimiter.)
NeedsQuotesNoComma(val) == Includes(val, "\"") \/ Includes(val, "\n")

NeedsQuotes(val) ==
    Includes(val, ",") \/ Includes(val, "\"") \/ Includes(val, "\n")

\* One cell of a data row.
CsvField(v) ==
    LET val == Nullish(v)
    IN  IF IsString(val) /\ NeedsQuotes(val)
        THEN "\"" \o DoubleQuotes(val) \o "\""
        ELSE val

\* One data row: the cells of csvColumns joined by commas.
CsvRow(row, csvColumns) ==
    Join([i \in 1..Len(csvColumns) |-> CsvField(ObjGet(row, csvColumns[i]))], ",")

\* csvRows: the header row, then one row per Record.
CsvRows(data) ==
    LET csvColumns == ObjKeys(data[1])
    IN  <<Join(csvColumns, ",")>>
        \o [i \in 1..Len(data) |-> CsvRow(data[i], csvColumns)]

(***************************************************************************)
(* Array.prototype.sort() of strings: by UTF-16 code units                 *)
(***************************************************************************)

\* The code unit of a character of the model's inputs: the digits from 48,
\* the capitals from 65, the small letters from 97, and the whitespace and
\* punctuation the inputs use.
CodeOf(c) ==
    IF IndexOf("0123456789", c) # -1 THEN 48 + IndexOf("0123456789", c)
    ELSE IF IndexOf("ABCDEFGHIJKLMNOPQRSTUVWXYZ", c) # -1
         THEN 65 + IndexOf("ABCDEFGHIJKLMNOPQRSTUVWXYZ", c)
    ELSE IF IndexOf("abcdefghijklmnopqrstuvwxyz", c) # -1
         THEN 97 + IndexOf("abcdefghijklmnopqrstuvwxyz", c)
    ELSE CASE c = "\t" -> 9
           [] c = "\n" -> 10
           [] c = "\r" -> 13
           [] c = " " -> 32
           [] c = "\"" -> 34
           [] c = "," -> 44
           [] c = "-" -> 45
           [] c = "." -> 46
           [] c = "/" -> 47

\* a < b in the order sort() uses without a comparator.
RECURSIVE StrLess(_, _)
StrLess(a, b) ==
    IF Len(b) = 0 THEN FALSE
    ELSE IF Len(a) = 0 THEN TRUE
    ELSE IF CharAt(a, 0) = CharAt(b, 0)
         THEN StrLess(SubstringFrom(a, 1), SubstringFrom(b, 1))
         ELSE CodeOf(CharAt(a, 0)) < CodeOf(CharAt(b, 0))

\* keys.sort() of distinct strings.
\* (SortStringsKept: the variant that leaves the keys as they are.)
SortStringsKept(keys) == keys

SortStrings(keys) ==
    [i \in 1..Len(keys) |->
        keys[CHOOSE j \in 1..Len(keys) :
                Cardinality({k \in 1..Len(keys) : StrLess(keys[k], keys[j])}) = i - 1]]

(***************************************************************************)
(* formatBytes                                                             *)
(***************************************************************************)

units == <<"B", "KB", "MB", "GB", "TB">>

\* Math.pow(1024, i).
RECURSIVE Pow1024(_)
Pow1024(i) == IF i = 0 THEN 1 ELSE 1024 * Pow1024(i - 1)

\* Math.floor(Math.log(bytes) / Math.log(1024)) for bytes >= 1: the
\* largest i with 1024^i <= bytes.
RECURSIVE UnitIndexFrom(_, _)
UnitIndexFrom(bytes, i) ==
    IF bytes < 1024 THEN i ELSE UnitIndexFrom(bytes \div 1024, i + 1)

UnitIndex(bytes) == UnitIndexFrom(bytes, 0)

\* String(n) of a natural number.
RECURSIVE NatToString(_)
NatToString(n) ==
    IF n < 10 THEN CharAt("0123456789", n)
    ELSE NatToString(n \div 10) \o CharAt("0123456789", n % 10)

\* toFixed(digits) of the quotient num / den, for digits 0 and 1: the
\* nearest multiple of 10^-digits, the larger one of two equally near.
\* bytes / 1024^i is exact in a double, so the quotient is the value.
ToFixed(num, den, digits) ==
    IF digits = 0
    THEN NatToString((2 * num + den) \div (2 * den))
    ELSE LET n == (20 * num + den) \div (2 * den)
         IN  NatToString(n \div 10) \o "." \o NatToString(n % 10)

\* value >= 10 || i === 0 ? 0 : 1, on the value before it is rounded.
DigitsOf(bytes, i) == IF bytes >= 10 * Pow1024(i) \/ i = 0 THEN 0 ELSE 1

formatBytes(bytes) ==
    IF bytes = 0 THEN "0 B"
    ELSE LET i == UnitIndex(bytes)
         IN  ToFixed(bytes, Pow1024(i), DigitsOf(bytes, i)) \o " " \o units[i + 1]

(***************************************************************************)
(* The run                                                                 *)
(***************************************************************************)

\* The dataset labels of ratingSources, in order.
ratingSources == <<"standard", "rapid", "blitz">>

\* ratingTypes of generateIndexHtml.
ratingTypes == <<"standard", "rapid", "blitz">>

\* path.join of segments that hold no separator and are not "." or "..":
\* the model's federation codes are letters, digits and inner spaces.
PathJoin(parts) == Join(parts, "/")

\* dir of a group, and its artifacts.
DirOf(fed, type) == PathJoin(<<"data", fed, type>>)

ArtifactPath(fed, type, ext) == PathJoin(<<DirOf(fed, type), type \o ext>>)

\* The extensions written before the Parquet export is tried.
CoreExts == {".txt", ".txt.zip", ".json", ".json.zip", ".csv", ".csv.zip"}

IndexPath == PathJoin(<<"data", "index.html">>)

(***************************************************************************)
(* Inputs of the model                                                     *)
(***************************************************************************)

\* Longest header enumerated character by character.
MaxHeaderLen == 5

\* Longest column value enumerated character by character.
MaxValueLen == 4

\* Most data lines of an enumerated sequence of lines.
MaxLines == 3

\* The strings of at most n characters over a set of characters.
RECURSIVE StringsUpTo(_, _)
StringsUpTo(chars, n) ==
    IF n = 0 THEN {""}
    ELSE LET shorter == StringsUpTo(chars, n - 1)
         IN  shorter \cup {s \o c : s \in shorter, c \in chars}

\* The sequences of at most n elements of a set.
RECURSIVE SeqsUpTo(_, _)
SeqsUpTo(S, n) ==
    IF n = 0 THEN {<<>>}
    ELSE LET shorter == SeqsUpTo(S, n - 1)
         IN  shorter \cup {Append(q, x) : q \in shorter, x \in S}

\* s padded with spaces to n characters, as a fixed-width field.
Pad(s, n) == s \o Substring("                        ", 0, n - Len(s))

\* A text member: its lines joined by line feeds.
TextOf(lines) == Join(lines, "\n")

\* Headers enumerated over a letter, the space and the tab, each with one
\* data line whose first two characters are its key (no 'Fed' in the
\* header).
LayoutTexts ==
    {TextOf(<<h, "xy z,w">>) :
        h \in StringsUpTo({"a", " ", "\t"}, MaxHeaderLen) \ {""}}

\* 'Fed Sex Tit' values: the shapes of the real lists, and enumerated ones.
FedSexTitShapes ==
    {"USA m   GM", "USA m", "USA", "AB m GM", "USA f   WGM WFM", "A   m"}

FedSexTitEnumerated == StringsUpTo({"A", " ", "m"}, MaxValueLen) \ {""}

\* Header "Fed Sex Tit   Name" with a value under its first column and a
\* name under its second.
FedSexTitTexts ==
    {TextOf(<<"Fed Sex Tit   Name", Pad(v, 14) \o n>>) :
        v \in FedSexTitShapes, n \in {"", "Bo", "Al, C"}}
    \cup {TextOf(<<"Fed Sex Tit   Name", Pad(v, 14) \o "Bo">>) :
        v \in FedSexTitEnumerated}

\* A header with every compound column, and lines of several lengths.
FullHeader == "ID  Fed Sex Tit  WTit OTit  FOA AUG25 Gms K  B-day Flag"

FullLines ==
    {Substring("12  " \o Pad(f, 13) \o Pad(w, 11) \o Pad(r, 17) \o b, 0, n) :
        f \in {"USA m   GM", "IN  f"},
        w \in {"WGM  WIM", "WGM", ""},
        r \in {"i   20  40", "    9", ""},
        b \in {"1990  wi", "1990  w i", "1990", ""},
        n \in {7, 20, 34, 60}}

FullTexts == {TextOf(<<FullHeader, l>>) : l \in FullLines}

\* Values over the characters the CSV emitter quotes, under header
\* "K  Value".
CsvTexts ==
    {TextOf(<<"K  Value", "k  " \o v>>) :
        v \in StringsUpTo({",", "\"", "a"}, MaxValueLen)}

\* Sequences of data lines under a header with a 'Fed' label and under one
\* without: two lines of one federation, another federation, a blank key and
\* a numeric key.
PartitionLines == {"1   USA  a", "2   IND  b", "3        c", "4   12   d", "5   USA"}

PartitionTexts ==
    {TextOf(<<"ID  Fed  N">> \o q) : q \in SeqsUpTo(PartitionLines, MaxLines)}
    \cup {TextOf(<<"Nm  Club">> \o q) : q \in SeqsUpTo(PartitionLines, MaxLines - 1)}

\* Headers with a rating block of several labels (one with two of them, one
\* of another month), and lines with three, two, one and no token under it.
RatingHeaders ==
    {"Fed  FOA AUG25 Gms K", "Fed  FOA AUG", "Fed  FOA AUG25 Gms K  FOA AUG26",
     "Fed  FOA SEP25 Gms K"}

RatingLines == {"USA  i   20  40", "USA      9", "IND  w 3", "IND"}

RatingTexts ==
    {TextOf(<<h>> \o q) :
        h \in RatingHeaders, q \in SeqsUpTo(RatingLines, MaxLines - 1) \ {<<>>}}

\* Text members with no header line: nothing, or line terminators only.
NoHeaderTexts == {"", "\n", "\r\n\r\n"}

\* The text members of the single-pass specification.
PassTexts ==
    LayoutTexts \cup FedSexTitTexts \cup FullTexts \cup CsvTexts
    \cup PartitionTexts \cup RatingTexts \cup NoHeaderTexts

\* The text members of the whole-run specification: none, a header alone,
\* two federations (one with two lines) with a line of blank key between
\* them, and one federation with CRLF line ends.
RunHeader == "ID  Fed Sex Tit  Name"

RunTexts ==
    {"",
     RunHeader,
     TextOf(<<RunHeader, "1   USA m   GM   Bo", "2                X", "3   IND f        Al, C",
              "5   USA f        Ed">>),
     Join(<<RunHeader, "4   IND m        Di">>, "\r\n")}

\* The sizes formatBytes is called on: those within SizeWindow of 0, of
\* 10 and 1024 bytes, and of 10, 100 and 1024 KB and 10 MB.
SizeWindow == 60

SizeMarks == {0, 10, 1024, 10240, 102400, 1048576, 10485760}

Sizes == {n \in UNION {(m - SizeWindow)..(m + SizeWindow) : m \in SizeMarks} : n >= 0}

VARIABLES
    mainPc,      \* main: "loop", "await", "index", "done", "crashed"
    ds,          \* 1-based position of main's for loop in ratingSources
    passPc,      \* processFideRatings: "idle", "download", "parse", "emit",
                 \* "parquet", "summary", "finish", "returned", "thrown"
    ratingType,  \* the pass's ratingType
    response,    \* what fetch and the archive gave the pass
    thrown,      \* the error the pass threw ("" for none)
    header,      \* lines[0]
    dataLines,   \* lines.slice(1)
    fedMap,      \* object: federation -> lines
    gi,          \* 1-based position of the loop over Object.entries(fedMap)
    jsonData,    \* the current group's Records
    csvRows,     \* the current group's CSV rows
    layout,      \* the current group's columns and colPositions
    files,       \* the file system under data/: path -> content
    fedSummary,  \* global.fedSummary: object fed -> object ratingType -> entry
    errLog,      \* groups <<fed, ratingType>> whose 'Failed to write Parquet'
                 \* was logged
    bytes,       \* formatBytes: its argument
    sizeText,    \* formatBytes: what it returned ("" while it has not)
    downloads    \* the servers: dataset label -> the text member it gave

vars == <<mainPc, ds, passPc, ratingType, response, thrown, header, dataLines,
          fedMap, gi, jsonData, csvRows, layout, files, fedSummary, errLog,
          bytes, sizeText, downloads>>

formatLocals == <<bytes, sizeText>>

passLocals == <<header, dataLines, fedMap, gi, jsonData, csvRows, layout>>

\* fs.writeFileSync(path, content) and AdmZip.writeZip(path).
WriteFile(fs, path, content) == (path :> content) @@ fs

Exists(fs, path) == path \in DOMAIN fs

\* A zip archive with one entry.
ZipOf(entryName, data) == [entryName |-> entryName, data |-> data]

\* for (const { url, type } of ratingSources) await processFideRatings(url, type):
\* the call runs the pass up to its first await, the fetch.
MainCall ==
    /\ mainPc = "loop"
    /\ ds <= Len(ratingSources)
    /\ mainPc' = "await"
    /\ passPc' = "download"
    /\ ratingType' = ratingSources[ds]
    /\ UNCHANGED <<ds, response, thrown, passLocals, files, fedSummary, errLog>>
    /\ UNCHANGED <<formatLocals, downloads>>

\* What a download can give: a status that is not ok, an archive with no
\* .txt entry, or an archive whose first .txt entry holds one of RunTexts.
Responses ==
    {[ok |-> FALSE, hasTxt |-> FALSE, txtContent |-> ""],
     [ok |-> TRUE, hasTxt |-> FALSE, txtContent |-> ""]}
    \cup {[ok |-> TRUE, hasTxt |-> TRUE, txtContent |-> t] : t \in RunTexts}

\* Lines 25-34: the fetch settles and the archive is opened.  A status that
\* is not ok throws, and so does an archive with no entry ending in .txt.
PassDownload ==
    /\ passPc = "download"
    /\ \E r \in Responses :
        /\ response' = r
        /\ IF ~r.ok
           THEN passPc' = "thrown" /\ thrown' = "Failed to download"
           ELSE IF ~r.hasTxt
           THEN passPc' = "thrown" /\ thrown' = "No .txt file found in ZIP"
           ELSE passPc' = "parse" /\ thrown' = thrown
        /\ downloads' = IF r.ok /\ r.hasTxt
                        THEN (ratingType :> r.txtContent) @@ downloads
                        ELSE downloads
    /\ UNCHANGED <<mainPc, ds, ratingType, passLocals, files, fedSummary, errLog>>
    /\ UNCHANGED formatLocals

\* Lines 37-58: the lines, the header, the span of 'Fed' and the groups.
\* With no line at all, header is undefined and header.indexOf throws a
\* TypeError.
PassParse ==
    /\ passPc = "parse"
    /\ LET lines == LinesOf(response.txtContent)
       IN  IF Len(lines) = 0
           THEN /\ passPc' = "thrown"
                /\ thrown' = "TypeError"
                /\ UNCHANGED passLocals
           ELSE /\ header' = lines[1]
                /\ dataLines' = Tail(lines)
                /\ fedMap' = GroupByFed(lines[1], Tail(lines))
                /\ gi' = 1
                /\ passPc' = "emit"
                /\ UNCHANGED <<thrown, jsonData, csvRows, layout>>
    /\ UNCHANGED <<mainPc, ds, ratingType, response, files, fedSummary, errLog>>
    /\ UNCHANGED <<formatLocals, downloads>>

\* The txt, json and csv artifacts of a group and their zips (lines 80-163).
CoreFiles(fs, fed, type, hdr, fedLines, data, rows) ==
    LET txt == Join(<<hdr>> \o fedLines, "\n")
        json == [json |-> data]
        csv == Join(rows, "\n")
        f1 == WriteFile(fs, ArtifactPath(fed, type, ".txt"), txt)
        f2 == WriteFile(f1, ArtifactPath(fed, type, ".txt.zip"), ZipOf(type \o ".txt", txt))
        f3 == WriteFile(f2, ArtifactPath(fed, type, ".json"), json)
        f4 == WriteFile(f3, ArtifactPath(fed, type, ".json.zip"), ZipOf(type \o ".json", json))
        f5 == WriteFile(f4, ArtifactPath(fed, type, ".csv"), csv)
    IN  WriteFile(f5, ArtifactPath(fed, type, ".csv.zip"), ZipOf(type \o ".csv", csv))

\* Lines 60-164: one iteration of the loop over Object.entries(fedMap), up
\* to the await of the Parquet export.  A group has at least one line, so
\* jsonData.length > 0 and the CSV branch is always taken.
PassEmit ==
    /\ passPc = "emit"
    /\ gi <= Len(fedMap)
    /\ LET fed == fedMap[gi][1]
           fedLines == fedMap[gi][2]
           lay == ExtractLayout(header)
           data == [i \in 1..Len(fedLines) |->
                       DecodeRow(lay.columns, lay.colPositions, fedLines[i])]
           rows == CsvRows(data)
       IN  /\ layout' = lay
           /\ jsonData' = data
           /\ csvRows' = rows
           /\ files' = CoreFiles(files, fed, ratingType, header, fedLines, data, rows)
    /\ passPc' = "parquet"
    /\ UNCHANGED <<mainPc, ds, ratingType, response, thrown, header, dataLines,
                   fedMap, gi, fedSummary, errLog>>
    /\ UNCHANGED <<formatLocals, downloads>>

\* Where the pass goes on after an error in the try block of the Parquet
\* export: the catch logs it and the group's summary follows.
\* (OnParquetErrorRethrow: the variant without the try/catch.)
OnParquetErrorRethrow == "thrown"

OnParquetError == "summary"

\* Lines 165-189: the Parquet export succeeds and writes its file, or any
\* of its steps throws.
PassParquet ==
    /\ passPc = "parquet"
    /\ LET fed == fedMap[gi][1]
       IN  \/ /\ files' = WriteFile(files, ArtifactPath(fed, ratingType, ".parquet"),
                                    [parquet |-> jsonData])
              /\ passPc' = "summary"
              /\ UNCHANGED <<errLog, thrown>>
           \/ /\ errLog' = errLog \cup {<<fed, ratingType>>}
              /\ passPc' = OnParquetError
              /\ thrown' = IF OnParquetError = "thrown" THEN "Parquet" ELSE thrown
              /\ UNCHANGED files
    /\ UNCHANGED <<mainPc, ds, ratingType, response, passLocals, fedSummary>>
    /\ UNCHANGED <<formatLocals, downloads>>

\* The length of JSON.stringify of a string: its characters between two
\* quotes, with a backslash before each quote, backslash, tab, line feed and
\* carriage return.
JsonStringLen(v) ==
    2 + Len(v) + Cardinality({i \in 0..(Len(v) - 1) :
                                CharAt(v, i) \in {"\"", "\\", "\t", "\n", "\r"}})

RECURSIVE SumTo(_, _)
SumTo(f, n) == IF n = 0 THEN 0 ELSE f[n] + SumTo(f, n - 1)

\* The length of JSON.stringify(jsonData, null, 2): one Record per item of
\* the array at indent 2, one member per line at indent 4.
JsonLen(data) ==
    LET member(m) == 5 + JsonStringLen(m[1]) + 2 + JsonStringLen(m[2])
        object(rec) ==
            IF Len(rec) = 0 THEN 2
            ELSE 1 + SumTo([f \in 1..Len(rec) |-> member(rec[f])], Len(rec))
                   + (Len(rec) - 1) + 4
        item(rec) == 3 + object(rec)
    IN  IF Len(data) = 0 THEN 2
        ELSE 1 + SumTo([i \in 1..Len(data) |-> item(data[i])], Len(data))
               + (Len(data) - 1) + 2

\* The entry of a group in the summary (lines 194-210), with the sizes of
\* the text, structured and CSV artifacts as fs.statSync gave them after
\* each write (the model's texts are ASCII: one byte per character).  The
\* sizes of the archives and of the Parquet file are those the encoders of
\* adm-zip and parquetjs-lite give and are left out of the entry.
SummaryEntry(fed, type, data, txt, csv) ==
    [count |-> Len(data),
     txtSize |-> formatBytes(Len(txt)),
     jsonSize |-> formatBytes(JsonLen(data)),
     csvSize |-> formatBytes(Len(csv)),
     txt |-> fed \o "/" \o type \o "/" \o type \o ".txt",
     txtzip |-> fed \o "/" \o type \o "/" \o type \o ".txt.zip",
     csv |-> fed \o "/" \o type \o "/" \o type \o ".csv",
     csvzip |-> fed \o "/" \o type \o "/" \o type \o ".csv.zip",
     json |-> fed \o "/" \o type \o "/" \o type \o ".json",
     jsonzip |-> fed \o "/" \o type \o "/" \o type \o ".json.zip",
     parquet |-> fed \o "/" \o type \o "/" \o type \o ".parquet"]

\* Lines 193-194: if (!global.fedSummary[fed]) global.fedSummary[fed] = {},
\* then global.fedSummary[fed][ratingType] = entry.
\* (SummaryWriteFresh: the variant without the test, a new object each
\* time.)
SummaryWriteFresh(summary, fed, type, entry) ==
    ObjSet(summary, fed, ObjSet(<<>>, type, entry))

SummaryWrite(summary, fed, type, entry) ==
    LET old == IF ObjHas(summary, fed) THEN ObjGet(summary, fed) ELSE <<>>
    IN  ObjSet(summary, fed, ObjSet(old, type, entry))

\* Lines 192-215: the group's entry is recorded and the loop goes on.
PassSummary ==
    /\ passPc = "summary"
    /\ LET fed == fedMap[gi][1]
       IN  fedSummary' = SummaryWrite(fedSummary, fed, ratingType,
                                      SummaryEntry(fed, ratingType, jsonData,
                                          Join(<<header>> \o fedMap[gi][2], "\n"),
                                          Join(csvRows, "\n")))
    /\ gi' = gi + 1
    /\ passPc' = "emit"
    /\ UNCHANGED <<mainPc, ds, ratingType, response, thrown, header, dataLines,
                   fedMap, jsonData, csvRows, layout, files, errLog>>
    /\ UNCHANGED <<formatLocals, downloads>>

\* Lines 216-219: the loop over the groups is over and the pass returns.
PassReturn ==
    /\ passPc = "emit"
    /\ gi > Len(fedMap)
    /\ passPc' = "returned"
    /\ UNCHANGED <<mainPc, ds, ratingType, response, thrown, passLocals, files,
                   fedSummary, errLog>>
    /\ UNCHANGED <<formatLocals, downloads>>

\* await: main goes on when the promise of the pass is settled.
\* (SettledAnyway: the variant without the await.)
SettledAnyway(pc) == TRUE

Settled(pc) == pc \in {"returned", "thrown"}

\* What a rejected pass does to main, which has no try: the error leaves
\* main and the run is over.
\* (OnRejectedContinue: the variant that catches and goes on.)
OnRejectedContinue == "loop"

OnRejected == "crashed"

\* The await of line 250 resumes main.
MainResume ==
    /\ mainPc = "await"
    /\ Settled(passPc)
    /\ IF passPc = "thrown"
       THEN /\ mainPc' = OnRejected
            /\ ds' = IF OnRejected = "crashed" THEN ds ELSE ds + 1
       ELSE /\ ds' = ds + 1
            /\ mainPc' = "loop"
    /\ UNCHANGED <<passPc, ratingType, response, thrown, passLocals, files,
                   fedSummary, errLog>>
    /\ UNCHANGED <<formatLocals, downloads>>

\* The for loop of main is over.
MainLoopEnd ==
    /\ mainPc = "loop"
    /\ ds > Len(ratingSources)
    /\ mainPc' = "index"
    /\ UNCHANGED <<ds, passPc, ratingType, response, thrown, passLocals, files,
                   fedSummary, errLog>>
    /\ UNCHANGED <<formatLocals, downloads>>

\* federations of generateIndexHtml: the summary's keys sorted, each with
\* its info per rating type (<<>> for null).
Federations(summary) ==
    LET keys == SortStrings(ObjKeys(summary))
    IN  [i \in 1..Len(keys) |->
            [fed |-> keys[i],
             ratings |-> [r \in 1..Len(ratingTypes) |->
                 IF ObjHas(ObjGet(summary, keys[i]), ratingTypes[r])
                 THEN <<ObjGet(ObjGet(summary, keys[i]), ratingTypes[r])>>
                 ELSE <<>>]]]

\* generateIndexHtml (lines 222-236): the summary is read and the listing
\* page written.
MainIndex ==
    /\ mainPc = "index"
    /\ files' = WriteFile(files, IndexPath, [html |-> Federations(fedSummary)])
    /\ mainPc' = "done"
    /\ UNCHANGED <<ds, passPc, ratingType, response, thrown, passLocals,
                   fedSummary, errLog>>
    /\ UNCHANGED <<formatLocals, downloads>>

PassNext ==
    \/ PassDownload
    \/ PassParse
    \/ PassEmit
    \/ PassParquet
    \/ PassSummary
    \/ PassReturn

Next ==
    \/ MainCall
    \/ MainResume
    \/ MainLoopEnd
    \/ MainIndex
    \/ PassNext

InitLocals ==
    /\ header = ""
    /\ dataLines = <<>>
    /\ fedMap = <<>>
    /\ gi = 1
    /\ jsonData = <<>>
    /\ csvRows = <<>>
    /\ layout = [columns |-> <<>>, colPositions |-> <<>>]
    /\ files = <<>>
    /\ fedSummary = <<>>
    /\ errLog = {}
    /\ thrown = ""
    /\ sizeText = ""

\* The whole run: main starts with nothing under data/ and no summary.
Init ==
    /\ mainPc = "loop"
    /\ ds = 1
    /\ passPc = "idle"
    /\ ratingType = ""
    /\ response = [ok |-> TRUE, hasTxt |-> TRUE, txtContent |-> ""]
    /\ bytes = 0
    /\ downloads = <<>>
    /\ InitLocals

Spec == Init /\ [][Next]_vars

\* One pass, of the first dataset, from the moment its text member is
\* extracted: the text is drawn from PassTexts.
InitPass ==
    /\ mainPc = "await"
    /\ ds = 1
    /\ passPc = "parse"
    /\ ratingType = ratingSources[1]
    /\ \E t \in PassTexts :
          /\ response = [ok |-> TRUE, hasTxt |-> TRUE, txtContent |-> t]
          /\ downloads = (ratingSources[1] :> t)
    /\ bytes = 0
    /\ InitLocals

NextPass ==
    \/ PassParse
    \/ PassEmit
    \/ PassParquet
    \/ PassSummary
    \/ PassReturn

SpecPass == InitPass /\ [][NextPass]_vars

\* formatBytes(bytes) returns.
FormatBytesReturn ==
    /\ sizeText = ""
    /\ sizeText' = formatBytes(bytes)
    /\ UNCHANGED <<mainPc, ds, passPc, ratingType, response, thrown, passLocals,
                   files, fedSummary, errLog, bytes, downloads>>

\* One call of formatBytes, on a size drawn from Sizes.
InitFormat ==
    /\ mainPc = "await"
    /\ ds = 1
    /\ passPc = "emit"
    /\ ratingType = ratingSources[1]
    /\ response = [ok |-> TRUE, hasTxt |-> TRUE, txtContent |-> ""]
    /\ bytes \in Sizes
    /\ downloads = <<>>
    /\ InitLocals

NextFormat == FormatBytesReturn

SpecFormat == InitFormat /\ [][NextFormat]_vars

(***************************************************************************)
(* Properties                                                              *)
(***************************************************************************)

Range(q) == {q[i] : i \in DOMAIN q}

\* The pass stands between the artifacts of group gi and its summary
\* entry: layout, jsonData and csvRows are those of group gi.
Decoded == passPc \in {"parquet", "summary"}

\* The pass has parsed its text member.
Parsed == passPc \in {"emit", "parquet", "summary", "returned"}

CurFed == fedMap[gi][1]

CurLines == fedMap[gi][2]

\* The whitespace-separated tokens of a string.
Tokens(s) == SelectSeq(SplitWs(s), LAMBDA t : t # "")

TokenAt(s, k) == IF k <= Len(Tokens(s)) THEN Tokens(s)[k] ELSE ""

TokensFrom(s, k) ==
    IF k <= Len(Tokens(s)) THEN Join(SubSeq(Tokens(s), k, Len(Tokens(s))), " ") ELSE ""

\* The field values of a Record, in its key order.
ValuesOf(rec) == [f \in 1..Len(rec) |-> rec[f][2]]

HasSummary(fed, type) ==
    ObjHas(fedSummary, fed) /\ ObjHas(ObjGet(fedSummary, fed), type)

ScenarioHeader == "Fed Sex Tit   Name"

\* C1 as stated: the header "Fed Sex Tit   Name" yields a Layout of 3
\* columns with boundaries at offsets 0, 13 and the header length.
C1_Original ==
    (Decoded /\ header = ScenarioHeader) =>
        /\ Len(layout.columns) = 3
        /\ {0, 13, Len(header)} \subseteq Range(layout.colPositions)

\* C1 (amended): the header "Fed Sex Tit   Name" yields a Layout of 2
\* columns, 'Fed Sex Tit' and 'Name', with boundaries at offsets 0, 14 and
\* the header length, 18.
C1_TwoColumns ==
    (Decoded /\ header = ScenarioHeader) =>
        /\ layout.columns = <<"Fed Sex Tit", "Name">>
        /\ layout.colPositions = <<0, 14, 18>>
        /\ Len(header) = 18

C1_Witness == Decoded /\ header = ScenarioHeader /\ Len(layout.columns) > 0

\* C2: for a header with a run of two or more spaces, the start offsets of
\* the Layout are in non-decreasing order, every column ends where the next
\* starts, and the last column ends at the header's length.
C2_SortedLayout ==
    (Decoded /\ Includes(header, "  ")) =>
        LET n == Len(layout.columns)
            cp == layout.colPositions
        IN  /\ Len(cp) = n + 1
            /\ \A i \in 1..n : cp[i] <= cp[i + 1]
            /\ cp[n + 1] = Len(header)

C2_Witness ==
    /\ Decoded
    /\ Includes(header, "  ")
    /\ Len(layout.columns) >= 2
    /\ layout.colPositions[1] > 0

\* The fields a column takes from its sliced value.
ValueFields(label) ==
    IF label = "Fed Sex Tit" THEN {"Fed", "Sex", "Title"}
    ELSE IF label = "WTit OTit" THEN {"WTit", "OTit"}
    ELSE IF StartsWith(label, "FOA AUG") THEN {"FOA", "Gms", "K"}
    ELSE IF label = "B-day Flag" THEN {"B-day", "Flag"}
    ELSE {label}

\* A field the header's own text fills, whatever the line holds.
HeaderFilled(name) ==
    name = "Rating" /\ \E j \in 1..Len(layout.columns) :
                            StartsWith(layout.columns[j], "FOA AUG")

\* C3: decoding a line raises no error, every field value of every Record
\* is a string, and the fields of a column that starts at or beyond the end
\* of the line are the empty string.
C3_DecodeTotal ==
    Decoded =>
        /\ thrown = ""
        /\ Len(jsonData) = Len(CurLines)
        /\ \A r \in 1..Len(jsonData) :
            /\ \A f \in 1..Len(jsonData[r]) : IsString(jsonData[r][f][2])
            /\ \A i \in 1..Len(layout.columns) :
                layout.colPositions[i] >= Len(CurLines[r]) =>
                    \A name \in ValueFields(layout.columns[i]) :
                        HeaderFilled(name) \/ ObjGet(jsonData[r], name) = ""

C3_Witness ==
    /\ Decoded
    /\ header = FullHeader
    /\ \E r \in 1..Len(jsonData) :
        /\ Len(CurLines[r]) <= layout.colPositions[3]
        /\ ObjGet(jsonData[r], "WTit") = ""
        /\ ObjGet(jsonData[r], "Fed") = "USA"
        /\ ObjGet(jsonData[r], "Sex") = ""

\* The columns labelled 'Fed Sex Tit' whose fields no other column sets.
FedSexTitColumns ==
    {i \in 1..Len(layout.columns) :
        /\ layout.columns[i] = "Fed Sex Tit"
        /\ \A j \in 1..Len(layout.columns) :
            j # i => ValueFields(layout.columns[j]) \cap {"Fed", "Sex", "Title"} = {}}

\* C4 as stated: Fed is the first 3 characters of the trimmed sliced value,
\* Sex the first token of the remaining characters, Title the remaining
\* tokens joined by single spaces.
C4_Original ==
    Decoded =>
        \A i \in FedSexTitColumns : \A r \in 1..Len(jsonData) :
            LET v == SliceOf(layout.colPositions, i, CurLines[r])
            IN  /\ ObjGet(jsonData[r], "Fed") = Substring(v, 0, 3)
                /\ ObjGet(jsonData[r], "Sex") = TokenAt(SubstringFrom(v, 3), 1)
                /\ ObjGet(jsonData[r], "Title") = TokensFrom(SubstringFrom(v, 3), 2)

\* C4 (amended): Fed is the first 3 characters of the trimmed sliced value
\* with the whitespace around them trimmed; Sex and Title as stated; the
\* value "USA m   GM" gives Fed "USA", Sex "m", Title "GM".
C4_FedSexTit ==
    Decoded =>
        \A i \in FedSexTitColumns : \A r \in 1..Len(jsonData) :
            LET v == SliceOf(layout.colPositions, i, CurLines[r])
            IN  /\ ObjGet(jsonData[r], "Fed") = Trim(Substring(v, 0, 3))
                /\ ObjGet(jsonData[r], "Sex") = TokenAt(SubstringFrom(v, 3), 1)
                /\ ObjGet(jsonData[r], "Title") = TokensFrom(SubstringFrom(v, 3), 2)
                /\ v = "USA m   GM" =>
                    /\ ObjGet(jsonData[r], "Fed") = "USA"
                    /\ ObjGet(jsonData[r], "Sex") = "m"
                    /\ ObjGet(jsonData[r], "Title") = "GM"

C4_Witness ==
    /\ Decoded
    /\ \E i \in FedSexTitColumns : \E r \in 1..Len(jsonData) :
        /\ SliceOf(layout.colPositions, i, CurLines[r]) = "USA m   GM"
        /\ ObjGet(jsonData[r], "Title") = "GM"

\* The key slice of a line: the characters under the span of the first
\* 'Fed' of the header.
KeySlice(hdr, line) ==
    Substring(line, IndexOf(hdr, "Fed"), IndexOf(hdr, "Fed") + 3)

\* The data lines of the text artifact of a group.
TxtDataLines(fed, type) == Tail(LinesOf(files[ArtifactPath(fed, type, ".txt")]))

\* C5: no group has the empty key, and a data line whose key slice under
\* the 'Fed' label is empty or all whitespace is in no group and in no
\* artifact of any group: the text artifacts hold the group's lines only,
\* and the structured and CSV artifacts one row per line of the group.
C5_BlankKeyDropped ==
    /\ ~ObjHas(fedMap, "")
    /\ IndexOf(header, "Fed") # -1 =>
        \A i \in 1..Len(dataLines) :
            Trim(KeySlice(header, dataLines[i])) = "" =>
                \A g \in 1..Len(fedMap) :
                    /\ dataLines[i] \notin Range(fedMap[g][2])
                    /\ Exists(files, ArtifactPath(fedMap[g][1], ratingType, ".csv.zip")) =>
                        LET fed == fedMap[g][1]
                            at(ext) == files[ArtifactPath(fed, ratingType, ext)]
                        IN  /\ dataLines[i] \notin Range(TxtDataLines(fed, ratingType))
                            /\ at(".txt.zip").data = at(".txt")
                            /\ Len(at(".json").json) = Len(fedMap[g][2])
                            /\ at(".json.zip").data = at(".json")
                            /\ Len(SplitLines(at(".csv"))) = 1 + Len(fedMap[g][2])
                            /\ at(".csv.zip").data = at(".csv")

C5_Witness ==
    /\ passPc = "returned"
    /\ IndexOf(header, "Fed") # -1
    /\ Len(fedMap) >= 2
    /\ \E i \in 1..Len(dataLines) :
        /\ Trim(KeySlice(header, dataLines[i])) = ""
        /\ Len(dataLines[i]) > IndexOf(header, "Fed") + 3

RECURSIVE SumSizes(_, _)
SumSizes(map, g) == IF g > Len(map) THEN 0 ELSE Len(map[g][2]) + SumSizes(map, g + 1)

\* C6: every data line with a non-empty trimmed key slice is in exactly one
\* group, the one keyed by it; a group holds exactly the lines of its key in
\* their input order; the group sizes sum to the number of such lines.
C6_Partition ==
    Parsed =>
        LET key(l) == Trim(Substring(l, IndexOf(header, "Fed"), IndexOf(header, "Fed") + 3))
        IN  /\ \A g, h \in 1..Len(fedMap) : fedMap[g][1] = fedMap[h][1] => g = h
            /\ \A g \in 1..Len(fedMap) :
                /\ fedMap[g][1] # ""
                /\ fedMap[g][2] = SelectSeq(dataLines, LAMBDA l : key(l) = fedMap[g][1])
            /\ \A i \in 1..Len(dataLines) :
                key(dataLines[i]) # "" => ObjHas(fedMap, key(dataLines[i]))
            /\ SumSizes(fedMap, 1)
                 = Cardinality({i \in 1..Len(dataLines) : key(dataLines[i]) # ""})

C6_Witness ==
    /\ passPc = "returned"
    /\ Len(fedMap) = 2
    /\ Len(dataLines) = 3
    /\ KeyOf(header, dataLines[1]) = KeyOf(header, dataLines[3])
    /\ dataLines[1] # dataLines[3]
    /\ KeyOf(header, dataLines[1]) # KeyOf(header, dataLines[2])

\* A CSV row split on the commas outside quotes (a comma with an even
\* number of quote characters before it), each quoted field without its
\* outer quotes and with its doubled quotes single.  The empty row is one
\* empty field.
QuotesBefore(s, i) == Cardinality({j \in 0..(i - 1) : CharAt(s, j) = "\""})

Unquote(cell) ==
    IF Len(cell) >= 2 /\ CharAt(cell, 0) = "\"" /\ CharAt(cell, Len(cell) - 1) = "\""
    THEN LET inner == Substring(cell, 1, Len(cell) - 1)
             kept == {j \in 0..(Len(inner) - 1) :
                        CharAt(inner, j) # "\"" \/ QuotesBefore(inner, j) % 2 = 0}
         IN  Join([k \in 1..Cardinality(kept) |-> CharAt(inner, Nth(kept, k))], "")
    ELSE cell

ParseCsvRow(row) ==
    LET commas == {i \in 0..(Len(row) - 1) :
                      CharAt(row, i) = "," /\ QuotesBefore(row, i) % 2 = 0}
        n == Cardinality(commas)
    IN  [k \in 1..(n + 1) |->
            Unquote(Substring(row,
                              IF k = 1 THEN 0 ELSE Nth(commas, k - 1) + 1,
                              IF k = n + 1 THEN Len(row) ELSE Nth(commas, k)))]

\* C7 as stated: the CSV data row of every Record, split again on commas
\* honouring the quoting, gives back the Record's field values in order.
C7_Original ==
    Decoded =>
        /\ Len(csvRows) = Len(jsonData) + 1
        /\ \A r \in 1..Len(jsonData) :
            ParseCsvRow(csvRows[r + 1]) = ValuesOf(jsonData[r])

\* C7 (amended): the CSV data row of every Record that has at least one
\* field, split again on commas honouring the quoting, gives back the
\* Record's field values in order.
C7_RoundTrip ==
    Decoded =>
        /\ Len(csvRows) = Len(jsonData) + 1
        /\ \A r \in 1..Len(jsonData) :
            Len(jsonData[r]) > 0 =>
                ParseCsvRow(csvRows[r + 1]) = ValuesOf(jsonData[r])

C7_Witness ==
    /\ Decoded
    /\ \E r \in 1..Len(jsonData) : \E f \in 1..Len(jsonData[r]) :
        /\ Includes(jsonData[r][f][2], ",")
        /\ Includes(jsonData[r][f][2], "\"")
        /\ Len(jsonData[r]) >= 2

\* The artifacts under data/ written for a dataset label.
FilesOfType(type) == {path \in DOMAIN files : Includes(path, "/" \o type \o "/")}

\* The summary entries recorded under a dataset label.
EntriesOfType(type) == {i \in 1..Len(fedSummary) : ObjHas(fedSummary[i][2], type)}

\* The dataset labels from position k of ratingSources on.
TypesFrom(k) == {ratingSources[j] : j \in k..Len(ratingSources)}

\* The row of a federation on the listing page.
ListingRow(fed) ==
    LET rows == files[IndexPath].html
    IN  rows[CHOOSE i \in 1..Len(rows) : rows[i].fed = fed]

TypeIndex(type) == CHOOSE r \in 1..Len(ratingTypes) : ratingTypes[r] = type

\* C8: a group whose Parquet export failed has its text, structured and
\* compressed artifacts, with the content of the group; the pass does not
\* throw and stands at the group's summary entry or has recorded it; the
\* run does not end on that failure, and once it is done the listing page
\* exists and shows the group's entry.
C8_ParquetIsolated ==
    /\ \A e \in errLog :
        /\ \A ext \in CoreExts : Exists(files, ArtifactPath(e[1], e[2], ext))
        /\ \/ HasSummary(e[1], e[2])
           \/ passPc = "summary" /\ ratingType = e[2] /\ CurFed = e[1]
        /\ e[2] = ratingType => passPc # "thrown" /\ mainPc # "crashed"
        /\ (e[2] = ratingType /\ Parsed /\ ObjHas(fedMap, e[1])) =>
            /\ files[ArtifactPath(e[1], e[2], ".txt")]
                 = Join(<<header>> \o ObjGet(fedMap, e[1]), "\n")
            /\ Len(files[ArtifactPath(e[1], e[2], ".json")].json)
                 = Len(ObjGet(fedMap, e[1]))
            /\ files[ArtifactPath(e[1], e[2], ".csv.zip")].data
                 = files[ArtifactPath(e[1], e[2], ".csv")]
        /\ mainPc = "done" =>
            ListingRow(e[1]).ratings[TypeIndex(e[2])] # <<>>
    /\ mainPc = "done" => Exists(files, IndexPath)

C8_Witness ==
    /\ mainPc = "done"
    /\ \E e \in errLog :
        /\ e[2] = ratingSources[1]
        /\ HasSummary(e[1], ratingSources[2])
        /\ Cardinality({i \in 1..Len(fedSummary) :
                           ObjHas(fedSummary[i][2], ratingSources[1])}) = 2

\* C9: the listing page is generated only after the pass of every dataset
\* has returned; a returned pass has written the artifacts and the summary
\* entry of each of its groups; a pass starts only when no other pass is
\* under way; and no step at or after the reading of the summary changes
\* the summary.
C9_Sequential ==
    /\ [](mainPc \in {"index", "done"} =>
            /\ ds > Len(ratingSources)
            /\ passPc = "returned"
            /\ ratingType = ratingSources[Len(ratingSources)])
    /\ [](passPc = "returned" =>
            /\ gi > Len(fedMap)
            /\ \A g \in 1..Len(fedMap) :
                /\ HasSummary(fedMap[g][1], ratingType)
                /\ \A ext \in CoreExts :
                    Exists(files, ArtifactPath(fedMap[g][1], ratingType, ext)))
    /\ [][(passPc' = "download" /\ passPc # "download") =>
            /\ passPc \in {"idle", "returned"}
            /\ ratingType' = ratingSources[ds]
            /\ \A j \in 1..(ds - 1) : ratingSources[j] # ratingType'
            /\ ds > 1 => ratingType = ratingSources[ds - 1]]_vars
    /\ [][(mainPc = "index" \/ Exists(files, IndexPath)) =>
            fedSummary' = fedSummary]_vars

C9_Witness ==
    /\ mainPc = "done"
    /\ Exists(files, IndexPath)
    /\ \A t \in Range(ratingSources) : EntriesOfType(t) # {}

\* The errors of the fetch and of the archive with no .txt entry.
DownloadErrors == {"Failed to download", "No .txt file found in ZIP"}

\* C10: when the fetch is not ok or the archive has no .txt entry, the pass
\* has thrown with no artifact and no summary entry of its dataset; main
\* ends there: no later dataset has an artifact or an entry, no listing
\* page is written, and no step changes the files or the summary any more.
C10_DownloadFatal ==
    /\ [](thrown \in DownloadErrors =>
            /\ passPc = "thrown"
            /\ mainPc \in {"await", "crashed"}
            /\ ratingType = ratingSources[ds]
            /\ \A t \in TypesFrom(ds) : FilesOfType(t) = {} /\ EntriesOfType(t) = {}
            /\ ~Exists(files, IndexPath))
    /\ [][((thrown' \in DownloadErrors) =>
            /\ files' = files
            /\ fedSummary' = fedSummary
            /\ ds' = ds)]_vars

C10_Witness ==
    /\ mainPc = "crashed"
    /\ thrown = "No .txt file found in ZIP"
    /\ ds = 2
    /\ Len(fedSummary) = 2
    /\ FilesOfType(ratingSources[1]) # {}

\* The keys of the rows of the listing page, top to bottom.
ListingKeys ==
    [i \in 1..Len(files[IndexPath].html) |-> files[IndexPath].html[i].fed]

\* a comes before b lexicographically: at the first offset where they
\* differ a has the smaller code unit, or a is a proper prefix of b.
LexBefore(a, b) ==
    \E p \in 0..Min(Len(a), Len(b)) :
        /\ Substring(a, 0, p) = Substring(b, 0, p)
        /\ IF p = Len(a) THEN p < Len(b)
           ELSE p < Len(b) /\ CodeOf(CharAt(a, p)) < CodeOf(CharAt(b, p))

\* The keys of q that are keys of obj, in the order of q.
KeptKeys(q, obj) == SelectSeq(q, LAMBDA k : ObjHas(obj, k))

\* C11: the rows of the listing page are the keys of the summary, each
\* once, in lexicographic order, in whatever order the keys were collected;
\* the order is made when the page is generated: collecting a group leaves
\* the keys already in the summary in the order they had, and generating
\* the page leaves the summary as it is.
C11_ListingSorted ==
    /\ [](Exists(files, IndexPath) =>
            /\ Range(ListingKeys) = Range(ObjKeys(fedSummary))
            /\ Len(ListingKeys) = Len(fedSummary)
            /\ \A i \in 1..(Len(ListingKeys) - 1) :
                LexBefore(ListingKeys[i], ListingKeys[i + 1]))
    /\ [][KeptKeys(ObjKeys(fedSummary'), fedSummary) = ObjKeys(fedSummary)]_vars

C11_Witness ==
    /\ mainPc = "done"
    /\ ObjKeys(fedSummary) = <<"USA", "IND">>
    /\ ListingKeys = <<"IND", "USA">>
    /\ HasSummary("USA", ratingSources[1])
    /\ HasSummary("IND", ratingSources[2])

\* The columns whose label starts with 'FOA AUG' and whose four fields no
\* other column sets.
RatingColumns ==
    {i \in 1..Len(layout.columns) :
        /\ StartsWith(layout.columns[i], "FOA AUG")
        /\ \A j \in 1..Len(layout.columns) :
            j # i => ValueFields(layout.columns[j])
                        \cap {"FOA", "Rating", "Gms", "K"} = {}}

\* The Records of the structured artifact of a group.
JsonOf(fed, type) == files[ArtifactPath(fed, type, ".json")].json

\* C12: under a column whose label starts with 'FOA AUG', Rating is the
\* second whitespace-separated token of the label, in every Record of every
\* group of the dataset, and FOA, Gms and K are the first, second and third
\* whitespace-separated tokens of the sliced value, the empty string when
\* the token is missing.
C12_RatingFromLabel ==
    Decoded =>
        \A i \in RatingColumns :
            /\ \A r \in 1..Len(jsonData) :
                LET v == SliceOf(layout.colPositions, i, CurLines[r])
                IN  /\ ObjGet(jsonData[r], "Rating") = TokenAt(layout.columns[i], 2)
                    /\ ObjGet(jsonData[r], "FOA") = TokenAt(v, 1)
                    /\ ObjGet(jsonData[r], "Gms") = TokenAt(v, 2)
                    /\ ObjGet(jsonData[r], "K") = TokenAt(v, 3)
            /\ \A g \in 1..gi : \A r \in 1..Len(JsonOf(fedMap[g][1], ratingType)) :
                ObjGet(JsonOf(fedMap[g][1], ratingType)[r], "Rating")
                    = TokenAt(layout.columns[i], 2)

C12_Witness ==
    /\ Decoded
    /\ gi = 2
    /\ RatingColumns # {}
    /\ \E r \in 1..Len(jsonData) :
        /\ ObjGet(jsonData[r], "Rating") = "AUG25"
        /\ ObjGet(jsonData[r], "FOA") = "w"
        /\ ObjGet(jsonData[r], "Gms") = "3"
        /\ ObjGet(jsonData[r], "K") = ""
    /\ \E r \in 1..Len(JsonOf(fedMap[1][1], ratingType)) :
        /\ ObjGet(JsonOf(fedMap[1][1], ratingType)[r], "Rating") = "AUG25"
        /\ ObjGet(JsonOf(fedMap[1][1], ratingType)[r], "Gms") = "20"

\* The figure and the unit of a formatted size.
FigureOf(text) == Substring(text, 0, IndexOf(text, " "))

UnitOf(text) == SubstringFrom(text, IndexOf(text, " ") + 1)

\* C13: a formatted size has a unit among B, KB, MB, GB and TB; a size in
\* bytes has no decimal place; a figure with a decimal place is under 10
\* (one digit, the point, one digit), so that a figure that rounds to 10 or
\* more has none; and a figure with no decimal place is in bytes or is 10 or
\* more.
C13_Original ==
    sizeText # "" =>
        LET fig == FigureOf(sizeText)
            unit == UnitOf(sizeText)
            dot == IndexOf(fig, ".")
        IN  /\ unit \in Range(units)
            /\ unit = "B" => dot = -1
            /\ dot # -1 => dot = 1 /\ Len(fig) = 3
            /\ dot = -1 => unit = "B" \/ Len(fig) >= 2

\* The text member the pass has parsed has no header line, or a header line
\* with no non-space character.
NoColumnMatch ==
    /\ passPc \in {"emit", "parquet", "summary", "returned", "thrown"}
    /\ response.ok
    /\ response.hasTxt
    /\ LET lines == LinesOf(response.txtContent)
       IN  Len(lines) = 0 \/ Trim(lines[1]) = ""

\* C14: a dataset with no header line, or with a header line that has no
\* non-space character, is processed with no error raised; its Layout has
\* no column and every Record decoded from it is the empty mapping.
C14_Original ==
    NoColumnMatch =>
        /\ passPc # "thrown"
        /\ thrown = ""
        /\ Decoded =>
            /\ layout.columns = <<>>
            /\ \A r \in 1..Len(jsonData) : jsonData[r] = <<>>

\* C15 as stated: under a header with a 'Fed Sex Tit' column, the Fed field
\* of every Record of a group is the key of the group.
C15_Original ==
    Decoded =>
        \A i \in FedSexTitColumns : \A r \in 1..Len(jsonData) :
            ObjGet(jsonData[r], "Fed") = CurFed

\* C15 (amended): under a header whose first 'Fed' starts its 'Fed Sex Tit'
\* column, the Fed field of the Record of a line is the key of its group
\* when the line's character at the offset of the label is not whitespace,
\* also when the code is shorter than 3 characters.
C15_AlignedFed ==
    Decoded =>
        \A i \in FedSexTitColumns : \A r \in 1..Len(jsonData) :
            (/\ layout.colPositions[i] = IndexOf(header, "Fed")
             /\ Len(CurLines[r]) > layout.colPositions[i]
             /\ ~IsSpace(CharAt(CurLines[r], layout.colPositions[i])))
                => ObjGet(jsonData[r], "Fed") = CurFed

C15_Witness ==
    /\ Decoded
    /\ CurFed = "AB"
    /\ \E i \in FedSexTitColumns : \E r \in 1..Len(jsonData) :
        /\ layout.colPositions[i] = IndexOf(header, "Fed")
        /\ ~IsSpace(CharAt(CurLines[r], layout.colPositions[i]))
        /\ ObjGet(jsonData[r], "Fed") = "AB"
        /\ ObjGet(jsonData[r], "Sex") = "m"

\* C16: when the header holds no 'Fed', the pass that has parsed it (it may
\* have failed instead) has no group: no line is grouped under characters
\* that are under no 'Fed' label.
C16_Original ==
    (Parsed /\ IndexOf(header, "Fed") = -1) => fedMap = <<>>

\* The header and the data lines of the text member a dataset's server
\* gave.
HeaderOf(type) == LinesOf(downloads[type])[1]

DataLinesOf(type) == Tail(LinesOf(downloads[type]))

\* The data lines of a dataset whose trimmed key slice is k.
LinesOfKey(type, k) ==
    {i \in 1..Len(DataLinesOf(type)) :
        Trim(KeySlice(HeaderOf(type), DataLinesOf(type)[i])) = k}

\* The non-empty trimmed keys of the data lines of a dataset.
KeysOf(type) ==
    {Trim(KeySlice(HeaderOf(type), DataLinesOf(type)[i])) :
        i \in 1..Len(DataLinesOf(type))} \ {""}

\* The entry of (key, label) in a summary table: <<the entry>>, or <<>>.
EntryIn(summary, fed, type) ==
    IF ObjHas(summary, fed) /\ ObjHas(ObjGet(summary, fed), type)
    THEN <<ObjGet(ObjGet(summary, fed), type)>>
    ELSE <<>>

\* C17: once the passes of all datasets have completed, the summary has an
\* entry for (key k, label d) exactly when a data line of dataset d has the
\* trimmed key k (k not empty), and its count is the number of those
\* lines; and every step leaves the entries of every label other than the
\* running pass's as they were, present or absent.
C17_SummaryTable ==
    /\ [](mainPc \in {"index", "done"} =>
            \A t \in Range(ratingSources) :
                /\ \A i \in 1..Len(fedSummary) :
                    ObjHas(fedSummary[i][2], t) => fedSummary[i][1] \in KeysOf(t)
                /\ \A k \in KeysOf(t) :
                    /\ HasSummary(k, t)
                    /\ ObjGet(ObjGet(fedSummary, k), t).count
                         = Cardinality(LinesOfKey(t, k)))
    /\ [][\A t \in Range(ratingSources) : \A k \in Range(ObjKeys(fedSummary')) :
            t # ratingType => EntryIn(fedSummary', k, t) = EntryIn(fedSummary, k, t)]_vars

C17_Witness ==
    /\ mainPc = "done"
    /\ HasSummary("USA", ratingSources[1])
    /\ HasSummary("IND", ratingSources[1])
    /\ ObjGet(ObjGet(fedSummary, "USA"), ratingSources[1]).count = 2
    /\ ObjGet(ObjGet(fedSummary, "IND"), ratingSources[1]).count = 1
    /\ HasSummary("IND", ratingSources[2])
    /\ ~HasSummary("USA", ratingSources[2])
    /\ Len(DataLinesOf(ratingSources[1])) = 4
    /\ \A t \in Range(ratingSources) : KeysOf(t) # {}

====
